---- MODULE Spec2Model ----
(***************************************************************************)
(* State-machine model of src/app.py: the 2048 move simulation             *)
(* (move_left, rotate_board, move_board, simulate_after_move), the         *)
(* heuristic (evaluate_board), the expectimax search and the /ai_suggest   *)
(* handler.                                                                *)
(*                                                                         *)
(* A board is a 4-tuple of rows, each a 4-tuple of integers; the source's  *)
(* index i in range(4) is the index i + 1 here.  A missing board (None)   *)
(* is the empty tuple, a missing token (None) the string "None".           *)
(* Floating-point scores are modelled as exact rationals                   *)
(* <<numerator, denominator>> in lowest terms.                             *)
(***************************************************************************)
EXTENDS Integers, Sequences, FiniteSets

(***************************************************************************)
(* Bounds of the exploration.                                              *)
(***************************************************************************)
\* Seed boards hold tiles 2^1 .. 2^MaxExp.
MaxExp == 2
\* Core operations applied to a seed board in one run of MoveSpec.
MaxOps == 2
\* Largest search depth a request asks for.
MaxDepth == 2
\* Nested expectimax calls followed below the advisor's own call.
MaxLevel == 2

(***************************************************************************)
(* Program constants.                                                      *)
(***************************************************************************)
\* range(4): the board is 4 x 4.
N == 4
\* evaluate_board's weights, times 100 (2.7, 1.5, 0.08, 0.9).
w_empty == 270
w_max == 150
w_smooth == 8
w_mono == 90

\* None where a board is expected, and None where a token is expected
None == <<>>
NoToken == "None"
Directions == <<"up", "down", "left", "right">>
DirectionSet == {Directions[k] : k \in 1..Len(Directions)}
\* Direction tokens a caller can pass: the four names and an unknown one.
Tokens == DirectionSet \cup {"diagonal"}

Idx == 1..N

\* a row and a board as explicit tuples of their N cells and N rows
AsRow(f) == <<f[1], f[2], f[3], f[4]>>
AsBoard(f) == <<AsRow(f[1]), AsRow(f[2]), AsRow(f[3]), AsRow(f[4])>>

(***************************************************************************)
(* move_left                                                               *)
(***************************************************************************)
\* A faulty variant of Compress: only the first empty cell is closed up, so a tile
\* slides one cell per call.
CompressOneGap(cells) ==
    IF \E k \in 1..Len(cells) : cells[k] = 0
    THEN LET k == CHOOSE k \in 1..Len(cells) :
                     cells[k] = 0 /\ \A m \in 1..(k - 1) : cells[m] # 0
         IN SubSeq(cells, 1, k - 1) \o SubSeq(cells, k + 1, Len(cells))
    ELSE cells

\* row = [x for x in board[i] if x != 0]
Compress(cells) == SelectSeq(cells, LAMBDA x : x # 0)

RECURSIVE MergeNoDouble(_, _, _)
\* A faulty variant of Merge: a merged pair keeps the value of one tile.
MergeNoDouble(row, j, result) ==
    IF j > Len(row) THEN result
    ELSE IF j + 1 <= Len(row) /\ row[j] = row[j + 1]
         THEN MergeNoDouble(row, j + 2, Append(result, row[j]))
         ELSE MergeNoDouble(row, j + 1, Append(result, row[j]))

RECURSIVE MergeAddTwo(_, _, _)
\* A faulty variant of Merge: a merged pair holds the value plus 2 instead of twice it.
MergeAddTwo(row, j, result) ==
    IF j > Len(row) THEN result
    ELSE IF j + 1 <= Len(row) /\ row[j] = row[j + 1]
         THEN MergeAddTwo(row, j + 2, Append(result, row[j] + 2))
         ELSE MergeAddTwo(row, j + 1, Append(result, row[j]))

RECURSIVE MergeCascade(_, _, _)
\* A faulty variant of Merge: a freshly merged tile merges again with its neighbour.
MergeCascade(row, j, result) ==
    IF j > Len(row) THEN result
    ELSE IF j + 1 <= Len(row) /\ row[j] = row[j + 1]
         THEN MergeCascade([row EXCEPT ![j + 1] = row[j] * 2], j + 1, result)
         ELSE MergeCascade(row, j + 1, Append(result, row[j]))

RECURSIVE Merge(_, _, _)
\* the loop `while j < len(row)` with its result list
Merge(row, j, result) ==
    IF j > Len(row) THEN result
    ELSE IF j + 1 <= Len(row) /\ row[j] = row[j + 1]
         THEN Merge(row, j + 2, Append(result, row[j] * 2))
         ELSE Merge(row, j + 1, Append(result, row[j]))

RECURSIVE Pad(_)
\* while len(result) < 4: result.append(0)
Pad(result) == IF Len(result) < N THEN Pad(Append(result, 0)) ELSE result

move_left(b) == AsBoard([i \in Idx |-> Pad(Merge(Compress(b[i]), 1, <<>>))])

(***************************************************************************)
(* rotate_board, np.fliplr, move_board, simulate_after_move                *)
(***************************************************************************)
\* np.rot90(b, 1): one counter-clockwise quarter turn
Rot90(b) == AsBoard([i \in Idx |-> [j \in Idx |-> b[j][N + 1 - i]]])

RECURSIVE RotTimes(_, _)
RotTimes(b, n) == IF n = 0 THEN b ELSE RotTimes(Rot90(b), n - 1)

\* A faulty variant of rotate_board: the turns are made clockwise.
rotate_clockwise(b, k) == RotTimes(b, (0 - k) % 4)

\* np.rot90(b, k): k counter-clockwise quarter turns, k taken modulo 4
rotate_board(b, k) == RotTimes(b, k % 4)

fliplr(b) == AsBoard([i \in Idx |-> [j \in Idx |-> b[i][N + 1 - j]]])

move_board(b, direction) ==
    IF direction = "up" THEN rotate_board(move_left(rotate_board(b, 1)), 0 - 1)
    ELSE IF direction = "down" THEN rotate_board(move_left(rotate_board(b, 0 - 1)), 1)
    ELSE IF direction = "left" THEN move_left(b)
    ELSE IF direction = "right" THEN fliplr(move_left(fliplr(b)))
    ELSE b

\* np.any(after > before)
AnyGreater(a, b) == \E i \in Idx, j \in Idx : a[i][j] > b[i][j]

\* A faulty variant of simulate_after_move: the unchanged board is returned as a move.
simulate_never_none(b, direction) == move_board(b, direction)

\* None when nothing changes, else the board after the move
simulate_after_move(b, direction) ==
    LET before == b
        after == move_board(b, direction)
        moved == before # after
        merged == AnyGreater(after, before)
    IN IF ~moved /\ ~merged THEN None ELSE after

(***************************************************************************)
(* Seed boards                                                             *)
(***************************************************************************)
RECURSIVE Pow2(_)
Pow2(e) == IF e = 0 THEN 1 ELSE 2 * Pow2(e - 1)

TileValues == {0} \cup {Pow2(e) : e \in 1..MaxExp}
SeedRows == [Idx -> TileValues]

\* the row shifted cyclically by s cells to the right
Shift(row, s) == [j \in Idx |-> row[((j - 1 - s) % N) + 1]]

\* rows row, Shift(row, k), Shift(row, 2k), Shift(row, 3k)
SeedBoard(row, k) == AsBoard([i \in Idx |-> Shift(row, k * (i - 1))])
SeedBoards == {SeedBoard(row, k) : row \in SeedRows, k \in 0..1}

Cells == {<<r, c>> : r \in Idx, c \in Idx}
EmptyCells(b) == {rc \in Cells : b[rc[1]][rc[2]] = 0}

\* nb = board.copy(); nb[r, c] = val
Place(b, r, c, val) == [b EXCEPT ![r][c] = val]

(***************************************************************************)
(* Heuristic evaluation                                                    *)
(***************************************************************************)
Abs(x) == IF x < 0 THEN 0 - x ELSE x
Max(x, y) == IF x >= y THEN x ELSE y

RECURSIVE MaxSeq(_)
MaxSeq(q) == IF q = <<>> THEN 0 ELSE Max(Head(q), MaxSeq(Tail(q)))

RECURSIVE SumTo(_, _)
\* f[1] + ... + f[n]
SumTo(f, n) == IF n = 0 THEN 0 ELSE f[n] + SumTo(f, n - 1)

\* int(np.sum(b == 0))
count_empty(b) ==
    SumTo([i \in Idx |-> SumTo([j \in Idx |-> IF b[i][j] = 0 THEN 1 ELSE 0], N)], N)

\* int(np.max(b)) if np.any(b) else 0
max_tile(b) == MaxSeq([i \in Idx |-> MaxSeq(b[i])])

smoothness(b) ==
    0 - ( SumTo([i \in Idx |->
                   SumTo([j \in 1..(N - 1) |-> Abs(b[i][j] - b[i][j + 1])], N - 1)], N)
        + SumTo([j \in Idx |->
                   SumTo([i \in 1..(N - 1) |-> Abs(b[i][j] - b[i + 1][j])], N - 1)], N) )

monotonicity(b) ==
      SumTo([i \in Idx |->
               SumTo([j \in 1..(N - 1) |->
                        IF b[i][j] >= b[i][j + 1] THEN 1 ELSE 0], N - 1)], N)
    + SumTo([j \in Idx |->
               SumTo([i \in 1..(N - 1) |->
                        IF b[i][j] >= b[i + 1][j] THEN 1 ELSE 0], N - 1)], N)

RECURSIVE Log2(_)
\* math.log2 of a power of two
Log2(x) == IF x <= 1 THEN 0 ELSE 1 + Log2(x \div 2)

(***************************************************************************)
(* Scores: exact rationals <<numerator, denominator>>, denominator > 0,    *)
(* in lowest terms.                                                        *)
(***************************************************************************)
RECURSIVE GCD(_, _)
GCD(x, y) == IF y = 0 THEN x ELSE GCD(y, x % y)
LCM(x, y) == (x \div GCD(x, y)) * y

Q(n, d) == LET g == GCD(Abs(n), d) IN <<n \div g, d \div g>>
QAdd(x, y) ==
    LET l == LCM(x[2], y[2]) IN Q(x[1] * (l \div x[2]) + y[1] * (l \div y[2]), l)
QTimes(x, n, d) == Q(x[1] * n, x[2] * d)
QGreater(x, y) ==
    LET l == LCM(x[2], y[2]) IN x[1] * (l \div x[2]) > y[1] * (l \div y[2])

RECURSIVE QSum(_, _, _)
\* f[lo] + ... + f[hi], added up by halves
QSum(f, lo, hi) ==
    IF lo > hi THEN Q(0, 1)
    ELSE IF lo = hi THEN f[lo]
    ELSE LET mid == (lo + hi) \div 2 IN QAdd(QSum(f, lo, mid), QSum(f, mid + 1, hi))

\* -float("inf")
NegInf == <<>>
\* val > best, where best may be -inf
Better(val, best) == best = NegInf \/ QGreater(val, best)

\* the weighted sum, kept exact: the weights are hundredths
evaluate_board(b) ==
    LET e == count_empty(b)
        mx == IF max_tile(b) > 0 THEN max_tile(b) ELSE 1
        sm == smoothness(b)
        mo == monotonicity(b)
    IN Q(w_empty * e + w_max * Log2(mx) + w_smooth * sm + w_mono * mo, 100)

(***************************************************************************)
(* Expectimax                                                              *)
(***************************************************************************)
\* the cells in the order np.where lists them: row by row
CellSeq == [k \in 1..(N * N) |-> <<((k - 1) \div N) + 1, ((k - 1) % N) + 1>>]
\* list(zip(*np.where(board == 0)))
Empties(b) == SelectSeq(CellSeq, LAMBDA rc : b[rc[1]][rc[2]] = 0)

\* depth == 0 or not np.any(board == 0)
Terminal(b, depth) == depth = 0 \/ Empties(b) = <<>>

RECURSIVE expectimax(_, _, _)
RECURSIVE PlayerLoop(_, _, _, _)

\* for mv in ["up", "down", "left", "right"], from the k-th on, with the best
\* value so far
PlayerLoop(b, depth, k, best) ==
    IF k > Len(Directions) THEN best
    ELSE LET nb == simulate_after_move(b, Directions[k]) IN
         IF nb = None THEN PlayerLoop(b, depth, k + 1, best)
         ELSE LET val == expectimax(nb, depth - 1, FALSE) IN
              PlayerLoop(b, depth, k + 1, IF Better(val, best) THEN val ELSE best)

\* the contribution of the k-th empty cell to `total`:
\* p * expectimax(nb, depth - 1, True) for (2, 0.9) and (4, 0.1)
ChanceTerm(b, depth, rc) ==
    QAdd(QTimes(expectimax(Place(b, rc[1], rc[2], 2), depth - 1, TRUE), 9, 10),
         QTimes(expectimax(Place(b, rc[1], rc[2], 4), depth - 1, TRUE), 1, 10))

expectimax(b, depth, is_player) ==
    IF Terminal(b, depth) THEN evaluate_board(b)
    ELSE IF is_player
         THEN LET best == PlayerLoop(b, depth, 1, NegInf) IN
              IF best # NegInf THEN best ELSE evaluate_board(b)
         ELSE LET empties == Empties(b) IN
              IF empties = <<>> THEN evaluate_board(b)
              ELSE LET total == QSum([k \in 1..Len(empties) |->
                                         ChanceTerm(b, depth, empties[k])],
                                      1, Len(empties))
                   IN QTimes(total, 1, Len(empties))

(***************************************************************************)
(* get_move_with_explanation                                               *)
(***************************************************************************)
RECURSIVE ScoreLoop(_, _, _)
\* move_scores as the dict is filled: <<mv, score>> pairs in insertion order
ScoreLoop(b, depth, k) ==
    IF k > Len(Directions) THEN <<>>
    ELSE LET mv == Directions[k]
             nb == simulate_after_move(b, mv)
         IN IF nb = None THEN ScoreLoop(b, depth, k + 1)
            ELSE <<<<mv, expectimax(nb, depth - 1, FALSE)>>>>
                 \o ScoreLoop(b, depth, k + 1)

RECURSIVE LastBest(_, _, _)
\* A faulty variant of FirstBest: a later key with an equal score replaces the best.
LastBest(scores, k, best) ==
    IF k > Len(scores) THEN best
    ELSE LastBest(scores, k + 1,
                  IF ~QGreater(scores[best][2], scores[k][2]) THEN k ELSE best)

RECURSIVE FirstBest(_, _, _)
\* max(move_scores, key=...): a later key replaces the best only when its
\* score is greater
FirstBest(scores, k, best) ==
    IF k > Len(scores) THEN best
    ELSE FirstBest(scores, k + 1,
                   IF QGreater(scores[k][2], scores[best][2]) THEN k ELSE best)

NoValidMoves == <<"No valid moves available.">>

\* the explanation of the best move, without its rounded utility figure
Explanation(nb) ==
    <<"Expected utility | Empty tiles after move | Max tile after move | Monotonicity | Reason: Chose the move with the highest expected heuristic score.",
      count_empty(nb), max_tile(nb), monotonicity(nb)>>

get_move_with_explanation(b, depth) ==
    LET move_scores == ScoreLoop(b, depth, 1) IN
    IF move_scores = <<>>
    THEN [best_move |-> NoToken, move_scores |-> <<>>, explanation |-> NoValidMoves]
    ELSE LET best_move == move_scores[FirstBest(move_scores, 2, 1)][1] IN
         [best_move |-> best_move,
          move_scores |-> move_scores,
          explanation |-> Explanation(simulate_after_move(b, best_move))]

\* str.upper() of a direction name
Upper(token) ==
    CASE token = "up" -> "UP"
      [] token = "down" -> "DOWN"
      [] token = "left" -> "LEFT"
      [] token = "right" -> "RIGHT"
      [] token = "diagonal" -> "DIAGONAL"

VARIABLES
    board,        \* the board the next call is made on
    before,       \* the board the last operation was given
    after,        \* the board move_board (or the placement) gave
    op,           \* the last operation
    arg,          \* its direction token
    ret,          \* what it returned: "None" or "board"
    origin,       \* the board the current run of moves started from
    nops,         \* operations so far
    pc,           \* /ai_suggest: "idle", "expectimax", "done" or "fault"
    depth,        \* the request's depth
    player_move,  \* the request's playerMove
    advice,       \* what get_move_with_explanation returned
    coach_msg,
    fault,        \* the exception that ended the handler
    frame,        \* the innermost expectimax call: <<board, depth, is_player>>
    level         \* how many expectimax calls lie above it

moveVars == <<board, before, after, op, arg, ret, origin, nops>>
adviceVars == <<pc, depth, player_move, advice, coach_msg, fault, frame, level>>
vars == <<moveVars, adviceVars>>

\* best_move, move_scores, explanation = get_move_with_explanation(...)
best_move == advice.best_move
move_scores == advice.move_scores
explanation == advice.explanation

\* the handler's variables before a request
Idle ==
    /\ pc = "idle"
    /\ depth = 0
    /\ player_move = NoToken
    /\ advice = [best_move |-> NoToken, move_scores |-> <<>>, explanation |-> <<>>]
    /\ coach_msg = <<>>
    /\ fault = "none"
    /\ frame = <<>>
    /\ level = 0

(***************************************************************************)
(* MoveSpec: simulate_after_move applied to a board again and again, with  *)
(* the chance node's tile placement after a valid move (the order in which *)
(* expectimax alternates them).                                            *)
(***************************************************************************)
MoveInit ==
    /\ board \in SeedBoards
    /\ before = board
    /\ after = board
    /\ op = "init"
    /\ arg = NoToken
    /\ ret = "init"
    /\ origin = board
    /\ nops = 0
    /\ Idle

\* simulate_after_move(board, direction): `after` is what move_board returned;
\* on None the caller keeps its board, else it goes on with the board returned
SimulateCall(direction) ==
    LET r == simulate_after_move(board, direction) IN
    /\ nops < MaxOps
    /\ before' = board
    /\ after' = move_board(board, direction)
    /\ board' = IF r = None THEN board ELSE r
    /\ op' = "simulate_after_move"
    /\ arg' = direction
    /\ ret' = IF r = None THEN "None" ELSE "board"
    /\ origin' = origin
    /\ nops' = nops + 1
    /\ UNCHANGED adviceVars

\* expectimax's chance node on the board of a valid move: a 2 or a 4 written
\* into an empty cell
ChancePlace(rc, val) ==
    /\ nops < MaxOps
    /\ op = "simulate_after_move"
    /\ ret = "board"
    /\ rc \in EmptyCells(board)
    /\ before' = board
    /\ after' = Place(board, rc[1], rc[2], val)
    /\ board' = after'
    /\ op' = "place"
    /\ arg' = NoToken
    /\ ret' = "board"
    /\ origin' = after'
    /\ nops' = nops + 1
    /\ UNCHANGED adviceVars

MoveNext ==
    \/ \E direction \in Tokens : SimulateCall(direction)
    \/ \E rc \in Cells, val \in {2, 4} : ChancePlace(rc, val)

MoveSpec == MoveInit /\ [][MoveNext]_vars

(***************************************************************************)
(* Spec: one /ai_suggest request on a board.                               *)
(***************************************************************************)
\* depths a request can carry: below zero, zero, and up to MaxDepth
Depths == (0 - 1)..MaxDepth
\* playerMove: absent, empty, a direction name or an unknown token
PlayerMoves == {NoToken, ""} \cup Tokens
\* `if player_move:`
Truthy(token) == token # NoToken /\ token # ""

Init == MoveInit

ValidMoves(b) == {k \in 1..Len(Directions) : simulate_after_move(b, Directions[k]) # None}
\* the first direction get_move_with_explanation calls expectimax for
FirstValid(b) == Directions[CHOOSE k \in ValidMoves(b) : \A m \in ValidMoves(b) : k <= m]

\* The search of get_move_with_explanation(b, d) is cut off by its depth
\* argument, or is never entered because no direction is valid.
SearchBounded(b, d) == d - 1 >= 0 \/ ValidMoves(b) = {}

GoodMove(token) == <<"Good move! ", Upper(token), " was the optimal choice.">>
BetterAlternative(token) == <<"A better alternative could have been ", Upper(token), ".">>

\* POST /ai_suggest with depth d and playerMove pm, when the search returns
AiSuggest ==
    \E d \in Depths :
        /\ pc = "idle"
        /\ SearchBounded(board, d)
        /\ depth' = d
        /\ advice' = get_move_with_explanation(board, d)
        /\ \E pm \in PlayerMoves :
              /\ player_move' = pm
              /\ \/ /\ Truthy(pm)
                    /\ advice'.best_move = pm
                    /\ coach_msg' = GoodMove(pm)
                    /\ pc' = "done"
                    /\ fault' = fault
                 \/ /\ Truthy(pm)
                    /\ advice'.best_move # pm
                    /\ advice'.best_move # NoToken
                    /\ coach_msg' = BetterAlternative(advice'.best_move)
                    /\ pc' = "done"
                    /\ fault' = fault
                 \/ \* best_move.upper() on None
                    /\ Truthy(pm)
                    /\ advice'.best_move # pm
                    /\ advice'.best_move = NoToken
                    /\ coach_msg' = coach_msg
                    /\ pc' = "fault"
                    /\ fault' = "AttributeError"
                 \/ /\ ~Truthy(pm)
                    /\ coach_msg' = <<"">>
                    /\ pc' = "done"
                    /\ fault' = fault
        /\ UNCHANGED <<moveVars, frame, level>>

\* POST /ai_suggest with a depth d <= 0 on a board with a valid direction:
\* get_move_with_explanation calls expectimax(nb, d - 1, False) for the first
\* valid direction, and no depth below zero is a terminal case
AiSuggestSearch ==
    \E d \in Depths, pm \in PlayerMoves :
        /\ pc = "idle"
        /\ ~SearchBounded(board, d)
        /\ depth' = d
        /\ player_move' = pm
        /\ pc' = "expectimax"
        /\ frame' = <<simulate_after_move(board, FirstValid(board)), d - 1, FALSE>>
        /\ level' = 0
        /\ UNCHANGED <<moveVars, advice, coach_msg, fault>>

\* the player node's first recursive call: the first valid direction
PlayerNodeCall ==
    /\ pc = "expectimax"
    /\ level < MaxLevel
    /\ ~Terminal(frame[1], frame[2])
    /\ frame[3]
    /\ ValidMoves(frame[1]) # {}
    /\ frame' = <<simulate_after_move(frame[1], FirstValid(frame[1])), frame[2] - 1, FALSE>>
    /\ level' = level + 1
    /\ UNCHANGED <<moveVars, pc, depth, player_move, advice, coach_msg, fault>>

\* the chance node's first recursive call: a 2 in the first empty cell
ChanceNodeCall ==
    /\ pc = "expectimax"
    /\ level < MaxLevel
    /\ ~Terminal(frame[1], frame[2])
    /\ ~frame[3]
    /\ LET rc == Empties(frame[1])[1] IN
       frame' = <<Place(frame[1], rc[1], rc[2], 2), frame[2] - 1, TRUE>>
    /\ level' = level + 1
    /\ UNCHANGED <<moveVars, pc, depth, player_move, advice, coach_msg, fault>>

Next ==
    \/ AiSuggest
    \/ AiSuggestSearch
    \/ PlayerNodeCall
    \/ ChanceNodeCall

Spec == Init /\ [][Next]_vars

(***************************************************************************)
(* Properties of the move simulation (checked under MoveSpec)              *)
(***************************************************************************)
RECURSIVE SumSeq(_)
SumSeq(q) == IF q = <<>> THEN 0 ELSE Head(q) + SumSeq(Tail(q))
BoardSum(b) == SumSeq([i \in Idx |-> SumSeq(b[i])])
Tiles(b) == Cardinality(Cells \ EmptyCells(b))

RECURSIVE IsPowerOfTwo(_)
IsPowerOfTwo(x) == x >= 2 /\ (x = 2 \/ (x % 2 = 0 /\ IsPowerOfTwo(x \div 2)))
WellFormed(b) ==
    /\ DOMAIN b = Idx
    /\ \A i \in Idx : DOMAIN b[i] = Idx
    /\ \A i \in Idx, j \in Idx : b[i][j] = 0 \/ IsPowerOfTwo(b[i][j])

Moved == op = "simulate_after_move" /\ arg \in DirectionSet

\* What the slide of one line of four cells must give, written out by the
\* number of tiles in it: a pair at the front merges first, a merged tile is
\* final, the rest keep their order, zeros fill the end.
SlideOf(cells) ==
    LET t == SelectSeq(cells, LAMBDA x : x > 0)
        a == t[1]
        b == t[2]
        c == t[3]
        d == t[4]
    IN CASE Len(t) = 0 -> <<0, 0, 0, 0>>
         [] Len(t) = 1 -> <<a, 0, 0, 0>>
         [] Len(t) = 2 -> IF a = b THEN <<a + b, 0, 0, 0>> ELSE <<a, b, 0, 0>>
         [] Len(t) = 3 -> IF a = b THEN <<a + b, c, 0, 0>>
                          ELSE IF b = c THEN <<a, b + c, 0, 0>>
                          ELSE <<a, b, c, 0>>
         [] OTHER -> IF a = b
                     THEN (IF c = d THEN <<a + b, c + d, 0, 0>>
                                    ELSE <<a + b, c, d, 0>>)
                     ELSE IF b = c THEN <<a, b + c, d, 0>>
                     ELSE IF c = d THEN <<a, b, c + d, 0>>
                     ELSE <<a, b, c, d>>

Transpose(b) == [i \in Idx |-> [j \in Idx |-> b[j][i]]]
FlipUpDown(b) == [i \in Idx |-> b[N + 1 - i]]
FlipLeftRight(b) == [i \in Idx |-> [j \in Idx |-> b[i][N + 1 - j]]]
Column(b, j) == [i \in Idx |-> b[i][j]]
Reversed(cells) == [k \in Idx |-> cells[N + 1 - k]]

\* some row holds two equal tiles side by side
HasEqualNeighbours(b) ==
    \E i \in Idx, j \in 1..(N - 1) : b[i][j] # 0 /\ b[i][j] = b[i][j + 1]

\* C2 (as claimed): a direction token that is none of up, down, left, right
\* is rejected with an invalid-argument error, never answered like a legal
\* move that changes nothing.
C2_UnknownDirectionRejected ==
    (op = "simulate_after_move" /\ arg \notin DirectionSet)
        => ret = "InvalidArgument"

\* C6 (as claimed): a slide-left that directly follows a slide-left leaves
\* the board as it is.
C6_SlideLeftIdempotent ==
    [][(op = "simulate_after_move" /\ arg = "left"
        /\ op' = "simulate_after_move" /\ arg' = "left") => after' = after]_vars

\* C6 (amended): a slide-left that directly follows a slide-left leaves the
\* board as it is exactly when no row of that board holds two equal tiles
\* side by side; otherwise it merges them.
C6_SecondSlideOnlyMerges ==
    [][(op = "simulate_after_move" /\ arg = "left"
        /\ op' = "simulate_after_move" /\ arg' = "left")
       => /\ (after' = after) <=> ~HasEqualNeighbours(after)
          /\ \A i \in Idx : after'[i] = SlideOf(after[i])]_vars

C6_Witness ==
    /\ nops = 2
    /\ op = "simulate_after_move" /\ arg = "left"
    /\ before = move_left(origin)
    /\ \E i \in Idx :
          /\ origin[i] = <<2, 2, 4, 0>>
          /\ before[i] = <<4, 4, 0, 0>>
          /\ after[i] = <<8, 0, 0, 0>>
    /\ \E i \in Idx : before[i] # <<0, 0, 0, 0>> /\ after[i] = before[i]

\* C7: a move in one of the four directions keeps the sum of all tiles, so
\* the sum is that of the board the run of moves started from.
C7_SumConserved ==
    /\ Moved => BoardSum(after) = BoardSum(before)
    /\ BoardSum(board) = BoardSum(origin)

C7_Witness ==
    /\ nops = 2
    /\ Moved
    /\ origin # before
    /\ Tiles(before) < Tiles(origin)
    /\ Tiles(after) < Tiles(before)

\* C8: after every move and every chance-node placement the board is 4 x 4
\* and each cell is 0 or a power of two >= 2.
C8_WellFormed == WellFormed(board) /\ WellFormed(after)

C8_Witness ==
    /\ nops = 2
    /\ op = "place"
    /\ Tiles(after) = Tiles(before) + 1
    /\ \E i \in Idx, j \in Idx : before[i][j] = 0 /\ after[i][j] = 4

\* C9: a slide-left gives, row by row, the compress-merge-pad result with at
\* most one merge per tile; [2,2,4,0] gives [4,4,0,0], [2,2,2,2] gives
\* [4,4,0,0] and [2,0,2,0] gives [4,0,0,0].
C9_OneMergePerTile ==
    (op = "simulate_after_move" /\ arg = "left") =>
        \A i \in Idx :
            /\ after[i] = SlideOf(before[i])
            /\ before[i] = <<2, 2, 4, 0>> => after[i] = <<4, 4, 0, 0>>
            /\ before[i] = <<2, 2, 2, 2>> => after[i] = <<4, 4, 0, 0>>
            /\ before[i] = <<2, 0, 2, 0>> => after[i] = <<4, 0, 0, 0>>

C9_Witness ==
    /\ op = "simulate_after_move" /\ arg = "left"
    /\ before[1] = <<2, 2, 4, 0>>
    /\ after[1] = <<4, 4, 0, 0>>
    /\ ret = "board"

\* C10: up is the transposed slide-left of the transposed board, down is up
\* on the board mirrored top to bottom, mirrored back, right is the mirrored
\* slide-left of the mirrored board; each line is packed and merged starting
\* at the edge moved toward.
C10_MovesTowardNamedEdge ==
    /\ (Moved /\ arg = "up") =>
          /\ after = Transpose(move_left(Transpose(before)))
          /\ \A j \in Idx : Column(after, j) = SlideOf(Column(before, j))
    /\ (Moved /\ arg = "down") =>
          /\ after = FlipUpDown(Transpose(move_left(Transpose(FlipUpDown(before)))))
          /\ \A j \in Idx :
                Reversed(Column(after, j)) = SlideOf(Reversed(Column(before, j)))
    /\ (Moved /\ arg = "right") =>
          /\ after = FlipLeftRight(move_left(FlipLeftRight(before)))
          /\ \A i \in Idx : Reversed(after[i]) = SlideOf(Reversed(before[i]))

C10_Witness ==
    /\ Moved /\ arg = "down"
    /\ Column(before, 1) = <<2, 2, 2, 0>>
    /\ Column(after, 1) = <<0, 0, 2, 4>>

(***************************************************************************)
(* Properties of the advisor (checked under Spec)                          *)
(***************************************************************************)
Handled == pc \in {"done", "fault"}
ScoredMoves == {move_scores[k][1] : k \in 1..Len(move_scores)}
DirIndex(token) == CHOOSE k \in 1..Len(Directions) : Directions[k] = token

\* a full board on which no two neighbours in a row or a column are equal
FullNoEqualNeighbours(b) ==
    /\ \A i \in Idx, j \in Idx : b[i][j] # 0
    /\ \A i \in Idx, j \in 1..(N - 1) : b[i][j] # b[i][j + 1]
    /\ \A i \in 1..(N - 1), j \in Idx : b[i][j] # b[i + 1][j]

\* C1 (as claimed): a request with depth <= 0 is a one-ply comparison: every
\* valid direction is scored with evaluate_board of its board and the
\* expectimax call made for it returns at its terminal case, so no call is
\* nested in it and no depth below 0 is passed on.
C1_DepthZeroIsOnePly ==
    (pc # "idle" /\ depth <= 0) =>
        /\ pc # "expectimax"
        /\ level = 0
        /\ ScoredMoves = {Directions[k] : k \in ValidMoves(board)}
        /\ \A k \in 1..Len(move_scores) :
              move_scores[k][2]
                  = evaluate_board(simulate_after_move(board, move_scores[k][1]))

\* C3: the score mapping holds exactly the valid directions, and the best move
\* is a valid direction of greatest score, the earliest of up, down, left,
\* right among those of greatest score.
C3_BestIsFirstMaximum ==
    Handled =>
        /\ ScoredMoves = {Directions[k] : k \in ValidMoves(board)}
        /\ Len(move_scores) = Cardinality(ScoredMoves)
        /\ move_scores # <<>> =>
              \E k \in 1..Len(move_scores) :
                  /\ move_scores[k][1] = best_move
                  /\ \A m \in 1..Len(move_scores) :
                        /\ ~QGreater(move_scores[m][2], move_scores[k][2])
                        /\ move_scores[m][2] = move_scores[k][2]
                              => DirIndex(best_move) <= DirIndex(move_scores[m][1])

C3_Witness ==
    /\ pc = "done"
    /\ depth = 2
    /\ Len(move_scores) >= 3
    /\ \E k \in 1..Len(move_scores), m \in 1..Len(move_scores) :
          /\ move_scores[k][1] = best_move
          /\ m > k
          /\ move_scores[m][2] = move_scores[k][2]
    /\ \E m \in 1..Len(move_scores) : move_scores[m][2] # move_scores[1][2]

\* C4: on a full board without equal neighbours every direction is invalid,
\* and the advisor returns no best move, no scores and the fixed message.
C4_FullBoardHasNoMove ==
    (Handled /\ FullNoEqualNeighbours(board)) =>
        /\ \A k \in 1..Len(Directions) : simulate_after_move(board, Directions[k]) = None
        /\ best_move = NoToken
        /\ move_scores = <<>>
        /\ explanation = NoValidMoves

C4_Witness ==
    /\ pc = "done"
    /\ FullNoEqualNeighbours(board)
    /\ best_move = NoToken
    /\ explanation = NoValidMoves

\* C5 (as claimed): every request completes without a fault, its coaching
\* message is one of the two templates (or empty without a player's move), and
\* a board without a legal move gets the "no valid moves" result.
C5_RequestCompletes ==
    Handled =>
        /\ fault = "none"
        /\ pc = "done"
        /\ Truthy(player_move) =>
              \/ coach_msg = GoodMove(player_move) /\ best_move = player_move
              \/ coach_msg = BetterAlternative(best_move) /\ best_move # player_move
        /\ ValidMoves(board) = {} => explanation = NoValidMoves

====
